---- MODULE Spec2Model ----
(***************************************************************************)
(* Model of src/api/search.py: the FastAPI gateway in front of the         *)
(* external Perplexity client.  State: the process environment, the        *)
(* module-level configuration computed at import, and one record per       *)
(* request slot holding the request's inputs, its position in the handler, *)
(* the calls it made to the external client and the response written.      *)
(***************************************************************************)
EXTENDS Naturals, Sequences, FiniteSets, TLC

VARIABLES env, phase, API_KEY, DEFAULT_COOKIES, ENV_COOKIES_ERROR,
          EMAILNATOR_COOKIES, req

config == <<API_KEY, DEFAULT_COOKIES, ENV_COOKIES_ERROR, EMAILNATOR_COOKIES>>
vars == <<env, phase, API_KEY, DEFAULT_COOKIES, ENV_COOKIES_ERROR,
          EMAILNATOR_COOKIES, req>>

\* Longest chunk sequence the external client yields in one stream.
MaxChunks == 2

(***************************************************************************)
(* Values.  A Python string is a sequence of units (words and single       *)
(* spaces); Optional[str] is [some, v]; a Dict[str, str] is a set of       *)
(* <<key, value>> pairs; Optional[Dict] is [some, d].  A JSON value is     *)
(* tagged with its type; an object's members carry scalars [t, lex].       *)
(***************************************************************************)
NoneStr == [some |-> FALSE, v |-> <<>>]
SomeStr(s) == [some |-> TRUE, v |-> s]
TruthyStr(o) == o.some /\ o.v # <<>>

NoneDict == [some |-> FALSE, d |-> {}]
SomeDict(d) == [some |-> TRUE, d |-> d]
TruthyDict(o) == o.some /\ o.d # {}

JV(t, o, l, s) == [t |-> t, obj |-> o, list |-> l, str |-> s]
JNull == JV("null", {}, <<>>, "")
JObj(o) == JV("obj", o, <<>>, "")
JList(l) == JV("list", {}, l, "")
JStr(s) == JV("str", {}, <<>>, s)
JLex(t, lex) == [t |-> t, lex |-> lex]
\* A field the request body leaves out.
JAbsent == JV("absent", {}, <<>>, "")

\* Python truthiness of a decoded JSON value (the `or` of line 213).
TruthyJson(j) ==
    CASE j.t = "null" -> FALSE
      [] j.t = "obj" -> j.obj # {}
      [] j.t = "list" -> j.list # <<>>
      [] OTHER -> j.str # ""

\* A text handed to json.loads: absent, the empty string, a text that is
\* not JSON, or a JSON text denoting val.
RawNone == [k |-> "none", val |-> JNull]
RawEmpty == [k |-> "empty", val |-> JNull]
RawBad == [k |-> "bad", val |-> JNull]
RawJson(j) == [k |-> "json", val |-> j]

\* json.loads: a JSONDecodeError for the empty string and for non-JSON text.
JsonLoads(raw) ==
    IF raw.k = "json" THEN [ok |-> TRUE, val |-> raw.val]
    ELSE [ok |-> FALSE, val |-> JNull]

\* {str(k): str(v) for k, v in parsed.items()}
StrItems(o) == {<<p[1], p[2].lex>> : p \in o}

_load_json_env(name, raw) ==
    IF raw.k \in {"none", "empty"} THEN [err |-> <<>>, d |-> {}]
    ELSE IF ~JsonLoads(raw).ok
         THEN [err |-> <<name, " must be valid JSON: ", "JSONDecodeError">>, d |-> {}]
    ELSE IF JsonLoads(raw).val.t # "obj"
         THEN [err |-> <<name, " must be a JSON object of cookies">>, d |-> {}]
    ELSE [err |-> <<>>, d |-> StrItems(JsonLoads(raw).val.obj)]

\* Lines 29-43: the module-level statements run at import.  crashed says
\* whether an exception escaped them.
ModuleLoad(e) ==
    LET c == _load_json_env("PPLX_COOKIES", e.PPLX_COOKIES)
        m == _load_json_env("EMAILNATOR_COOKIES", e.EMAILNATOR_COOKIES)
    IN [crashed |-> FALSE,
        ENV_COOKIES_ERROR |-> c.err,
        DEFAULT_COOKIES |-> c.d,
        EMAILNATOR_COOKIES |-> m.d,
        API_KEY |-> e.PPLX_API_KEY]

(***************************************************************************)
(* require_api_key, lines 74-90.                                           *)
(***************************************************************************)
\* str.lower() on one unit.
Lower(u) == IF u \in {"Bearer", "BEARER", "bearer"} THEN "bearer" ELSE u

\* authorization.lower().startswith("bearer ")
StartsWithBearer(s) == Len(s) >= 2 /\ Lower(s[1]) = "bearer" /\ s[2] = " "

\* Lines 84-86: authorization.split(" ", 1)[1] when the prefix matches.
BearerToken(authorization) ==
    IF TruthyStr(authorization) /\ StartsWithBearer(authorization.v)
    THEN SomeStr(SubSeq(authorization.v, 3, Len(authorization.v)))
    ELSE NoneStr

\* Mutant of Supplied: the bearer token is preferred over the header.
Supplied_BearerFirst(x_api_key, authorization) ==
    IF TruthyStr(BearerToken(authorization)) THEN BearerToken(authorization)
    ELSE x_api_key

\* Line 88: x_api_key or bearer_token
Supplied(x_api_key, authorization) ==
    IF TruthyStr(x_api_key) THEN x_api_key ELSE BearerToken(authorization)

\* Mutant of require_api_key: the credential is compared before the
\* missing secret is noticed.
require_api_key_CredentialFirst(key, x_api_key, authorization) ==
    IF Supplied(x_api_key, authorization) # key
    THEN [status |-> 401, detail |-> <<"Invalid API key.">>]
    ELSE IF ~TruthyStr(key)
    THEN [status |-> 500, detail |-> <<"PPLX_API_KEY is not configured on the server.">>]
    ELSE [status |-> 0, detail |-> <<>>]

\* The dependency's outcome: status 0 lets the request through.
require_api_key(key, x_api_key, authorization) ==
    IF ~TruthyStr(key)
    THEN [status |-> 500, detail |-> <<"PPLX_API_KEY is not configured on the server.">>]
    ELSE IF Supplied(x_api_key, authorization) # key
    THEN [status |-> 401, detail |-> <<"Invalid API key.">>]
    ELSE [status |-> 0, detail |-> <<>>]

(***************************************************************************)
(* _resolve_cookies, lines 93-101, and _parse_optional_json, lines 104-113.*)
(***************************************************************************)
\* Mutant of _resolve_cookies: the deferred error is never raised.
_resolve_cookies_IgnoreError(override, cookiesError, defaultCookies) ==
    [status |-> 0, detail |-> <<>>,
     cookies |-> IF TruthyDict(override) THEN override.d ELSE defaultCookies]

\* Mutant of _resolve_cookies: the override is never used.
_resolve_cookies_DefaultOnly(override, cookiesError, defaultCookies) ==
    IF cookiesError # <<>>
    THEN [status |-> 500, detail |-> cookiesError, cookies |-> {}]
    ELSE [status |-> 0, detail |-> <<>>, cookies |-> defaultCookies]

_resolve_cookies(override, cookiesError, defaultCookies) ==
    IF TruthyDict(override) THEN [status |-> 0, detail |-> <<>>, cookies |-> override.d]
    ELSE IF cookiesError # <<>>
    THEN [status |-> 500, detail |-> cookiesError, cookies |-> {}]
    ELSE [status |-> 0, detail |-> <<>>, cookies |-> defaultCookies]

_parse_optional_json(raw, field_name) ==
    IF raw.k = "none" THEN [status |-> 0, detail |-> <<>>, val |-> JNull]
    ELSE IF JsonLoads(raw).ok THEN [status |-> 0, detail |-> <<>>, val |-> JsonLoads(raw).val]
    ELSE [status |-> 422,
          detail |-> <<"Field '", field_name, "' must be valid JSON: ", "JSONDecodeError">>,
          val |-> JNull]

(***************************************************************************)
(* SearchRequest, lines 46-58: the pydantic model.  fields holds the JSON  *)
(* values given for mode, sources, stream, cookies and follow_up ("absent" *)
(* for a field left out).                                                  *)
(***************************************************************************)
DefaultSources == <<"web">>

\* Dict[str, str]: every member value must be a string.
IsStrDict(j) == j.t = "obj" /\ \A p \in j.obj : p[2].t = "str"

SearchRequest(fields) ==
    LET sourcesOk == fields.sources.t \in {"absent", "list"}
        cookiesOk == fields.cookies.t \in {"absent", "null"} \/ IsStrDict(fields.cookies)
        followOk == fields.follow_up.t \in {"absent", "null", "obj"}
    IN [ok |-> sourcesOk /\ cookiesOk /\ followOk,
        mode |-> fields.mode,
        sources |-> IF fields.sources.t = "list" THEN fields.sources.list
                    ELSE DefaultSources,
        stream |-> fields.stream,
        cookies |-> IF IsStrDict(fields.cookies)
                    THEN SomeDict(StrItems(fields.cookies.obj)) ELSE NoneDict]

(***************************************************************************)
(* The validator and its tables (perplexity.utils, perplexity.config).     *)
(***************************************************************************)
SEARCH_MODES == {"auto", "pro", "reasoning", "deep research"}
SEARCH_SOURCES == {"web", "scholar", "social"}

\* The ValidationError message, <<>> when the parameters pass.
validate_search_params(mode, sources, own_account) ==
    IF mode \notin SEARCH_MODES THEN <<"Invalid mode '", mode, "'">>
    ELSE IF \E i \in 1..Len(sources) : sources[i] \notin SEARCH_SOURCES
    THEN <<"Invalid source">>
    ELSE <<>>

(***************************************************************************)
(* Exceptions of the external client and the handlers' except clauses,     *)
(* lines 181-189 and 229-237.                                              *)
(***************************************************************************)
NoError == [kind |-> "", msg |-> ""]
ClientErrors == {[kind |-> "AssertionError", msg |-> "assert failed"],
                 [kind |-> "Exception", msg |-> "boom"]}

\* Mutant of MapSearchFailure: the AssertionError clause is missing.
MapSearchFailure_All500(exc) ==
    [status |-> 500, detail |-> <<"Search failed: ", exc.msg>>]

MapSearchFailure(exc) ==
    IF exc.kind = "AssertionError"
    THEN [status |-> 400, detail |-> <<exc.msg>>]
    ELSE [status |-> 500, detail |-> <<"Search failed: ", exc.msg>>]

(***************************************************************************)
(* stream_response, lines 144-146.  A chunk is a string over the units     *)
(* "a" and "\n"; json.dumps quotes it and escapes the newline.             *)
(***************************************************************************)
Chunks == {<<"a">>, <<"\n">>}

RECURSIVE JsonEscape(_)
JsonEscape(s) ==
    IF s = <<>> THEN <<>>
    ELSE (IF Head(s) = "\n" THEN <<"\\", "n">> ELSE <<Head(s)>>) \o JsonEscape(Tail(s))

json_dumps(chunk) == <<"\"">> \o JsonEscape(chunk) \o <<"\"">>

\* Line 146: json.dumps(chunk).encode("utf-8") + b"\n"
StreamLine(chunk) == json_dumps(chunk) \o <<"\n">>

\* The records a reader of newline-delimited JSON sees in a body: the
\* pieces ended by "\n", then the unterminated rest when it is not empty.
RECURSIVE SplitLines(_, _)
SplitLines(bytes, cur) ==
    IF bytes = <<>> THEN (IF cur = <<>> THEN <<>> ELSE <<cur>>)
    ELSE IF Head(bytes) = "\n" THEN <<cur>> \o SplitLines(Tail(bytes), <<>>)
    ELSE SplitLines(Tail(bytes), Append(cur, Head(bytes)))

Lines(bytes) == SplitLines(bytes, <<>>)

(***************************************************************************)
(* Requests.                                                               *)
(***************************************************************************)
AuthRoutes == {"/v1/models", "/v1/search", "/v1/search/upload", "/v1/account", "/v1/usage"}
Routes == AuthRoutes \cup {"/health"}

NoFields == [mode |-> "", sources |-> JAbsent, stream |-> FALSE,
             cookies |-> JAbsent, follow_up |-> JAbsent]
NoForm == [mode |-> "", stream |-> FALSE, sources |-> RawNone,
           cookies |-> RawNone, follow_up |-> RawNone]

Idle == [pc |-> "idle", route |-> "", x_api_key |-> NoneStr, authorization |-> NoneStr,
         fields |-> NoFields, form |-> NoForm, account |-> JAbsent,
         request |-> SearchRequest(NoFields), cookies |-> {}, calls |-> <<>>,
         authed |-> FALSE, status |-> 0, detail |-> <<>>, payload |-> {},
         failedAt |-> "", exc |-> NoError,
         stream |-> "none", yielded |-> <<>>, chunk |-> <<>>, out |-> <<>>]

\* One invocation of the external client.
ClientCall(cookies) ==
    [op |-> "Client", cookies |-> cookies, mode |-> "", sources |-> <<>>, stream |-> FALSE]
SearchCall(request) ==
    [op |-> "search", cookies |-> {}, mode |-> request.mode,
     sources |-> request.sources, stream |-> request.stream]
CreateAccountCall(cookies) ==
    [op |-> "create_account", cookies |-> cookies, mode |-> "", sources |-> <<>>,
     stream |-> FALSE]

\* The response of a request that ends with an HTTP error or a JSON body.
Respond(q, status, detail) == [q EXCEPT !.pc = "done", !.status = status, !.detail = detail]
RespondJson(q, payload) == [q EXCEPT !.pc = "done", !.status = 200, !.payload = payload]

\* The external client raised exc in the call named by at.
Raised(q, at, exc) == [q EXCEPT !.failedAt = at, !.exc = exc]

\* An exception no handler catches: the framework's plain 500.
Unhandled(q) == Respond(q, 500, <<"Internal Server Error">>)

\* Mutant of ValidationFailure: the validator's error is answered 400.
ValidationFailure_400(msg) == [status |-> 400, detail |-> msg]

\* Lines 126-127: a ValidationError of the validator becomes a 422.
ValidationFailure(msg) == [status |-> 422, detail |-> msg]

\* _run_search up to its first await, lines 119-129: validation, then the
\* call of the client's constructor.  The requests modelled carry no
\* files, no model and a query that sanitize_query accepts, so mode and
\* sources decide the validation.
_run_search(q, request, cookies) ==
    LET own_account == cookies # {}
        msg == validate_search_params(request.mode, request.sources, own_account)
    IN IF msg # <<>>
       THEN Respond(q, ValidationFailure(msg).status, ValidationFailure(msg).detail)
       ELSE [q EXCEPT !.pc = "client", !.request = request, !.cookies = cookies,
                      !.calls = Append(@, ClientCall(cookies))]

\* Mutant of AccountCookies: the environment's set is preferred.
AccountCookies_EnvFirst(own, envCookies) ==
    IF envCookies # {} THEN envCookies ELSE own.d

\* Line 246: request.emailnator_cookies or EMAILNATOR_COOKIES
AccountCookies(own, envCookies) == IF TruthyDict(own) THEN own.d ELSE envCookies

\* Mutant of stream_response: the record separator is left out.
stream_response_NoNewline(out, chunk) == out \o json_dumps(chunk)

\* Line 146 inside the generator: the bytes written for one chunk.
stream_response(out, chunk) == out \o StreamLine(chunk)

(***************************************************************************)
(* Actions.  U names the inputs requests are drawn from.                   *)
(***************************************************************************)
Set(r, q) == req' = [req EXCEPT ![r] = q]

\* Lines 29-43 run once, when the module is imported.
LoadModule ==
    /\ phase = "start"
    /\ LET m == ModuleLoad(env)
       IN /\ phase' = IF m.crashed THEN "crashed" ELSE "serving"
          /\ API_KEY' = m.API_KEY
          /\ DEFAULT_COOKIES' = m.DEFAULT_COOKIES
          /\ ENV_COOKIES_ERROR' = m.ENV_COOKIES_ERROR
          /\ EMAILNATOR_COOKIES' = m.EMAILNATOR_COOKIES
    /\ UNCHANGED <<env, req>>

\* A request reaches the application.
Arrive(r, U) ==
    /\ phase = "serving"
    /\ req[r].pc = "idle"
    /\ \E route \in U.routes, x \in U.x_api_key, a \in U.authorization :
         Set(r, [Idle EXCEPT !.pc = "arrived", !.route = route,
                             !.x_api_key = x, !.authorization = a])
    /\ UNCHANGED <<env, phase, config>>

\* The require_api_key dependency of the authenticated routes.
Auth(r) ==
    /\ req[r].pc = "arrived"
    /\ req[r].route \in AuthRoutes
    /\ LET res == require_api_key(API_KEY, req[r].x_api_key, req[r].authorization)
       IN Set(r, IF res.status # 0 THEN Respond(req[r], res.status, res.detail)
                 ELSE [req[r] EXCEPT !.pc = "authed", !.authed = TRUE])
    /\ UNCHANGED <<env, phase, config>>

\* Lines 165-167.
Health(r) ==
    /\ req[r].pc = "arrived"
    /\ req[r].route = "/health"
    /\ Set(r, RespondJson(req[r], {<<"status", "ok">>}))
    /\ UNCHANGED <<env, phase, config>>

\* Lines 170-172.
ListModels(r) ==
    /\ req[r].pc = "authed"
    /\ req[r].route = "/v1/models"
    /\ Set(r, RespondJson(req[r], {<<"modes", "SEARCH_MODES">>,
                                   <<"sources", "SEARCH_SOURCES">>,
                                   <<"models", "MODEL_MAPPINGS">>}))
    /\ UNCHANGED <<env, phase, config>>

Bool(b) == IF b THEN "true" ELSE "false"

\* Lines 266-273.
Usage(r) ==
    /\ req[r].pc = "authed"
    /\ req[r].route = "/v1/usage"
    /\ Set(r, RespondJson(req[r],
              {<<"has_cookies", Bool(DEFAULT_COOKIES # {})>>,
               <<"has_emailnator_cookies", Bool(EMAILNATOR_COOKIES # {})>>,
               <<"auth_mode", "api_key">>}))
    /\ UNCHANGED <<env, phase, config>>

\* Lines 175-180, to the first await of _run_search.  The framework
\* validates the JSON body against SearchRequest before the handler runs.
Search(r, U) ==
    /\ req[r].pc = "authed"
    /\ req[r].route = "/v1/search"
    /\ \E fields \in U.bodies :
         LET request == SearchRequest(fields)
             q == [req[r] EXCEPT !.fields = fields]
             res == _resolve_cookies(request.cookies, ENV_COOKIES_ERROR, DEFAULT_COOKIES)
         IN Set(r, IF ~request.ok THEN Respond(q, 422, <<"RequestValidationError">>)
                   ELSE IF res.status # 0 THEN Respond(q, res.status, res.detail)
                   ELSE _run_search(q, request, res.cookies))
    /\ UNCHANGED <<env, phase, config>>

\* Lines 197-228, to the first await of _run_search.  The form fields are
\* parsed in the order the keyword arguments are written; a pydantic error
\* of the SearchRequest constructor is caught by nothing.
SearchWithUpload(r, U) ==
    /\ req[r].pc = "authed"
    /\ req[r].route = "/v1/search/upload"
    /\ \E form \in U.forms :
         LET ps == _parse_optional_json(form.sources, "sources")
             pf == _parse_optional_json(form.follow_up, "follow_up")
             pk == _parse_optional_json(form.cookies, "cookies")
             fields == [mode |-> form.mode,
                        sources |-> IF TruthyJson(ps.val) THEN ps.val
                                    ELSE JList(DefaultSources),
                        stream |-> form.stream,
                        cookies |-> pk.val,
                        follow_up |-> pf.val]
             request == SearchRequest(fields)
             q == [req[r] EXCEPT !.form = form]
             res == _resolve_cookies(request.cookies, ENV_COOKIES_ERROR, DEFAULT_COOKIES)
         IN Set(r, IF ps.status # 0 THEN Respond(q, ps.status, ps.detail)
                   ELSE IF pf.status # 0 THEN Respond(q, pf.status, pf.detail)
                   ELSE IF pk.status # 0 THEN Respond(q, pk.status, pk.detail)
                   ELSE IF ~request.ok THEN Unhandled(q)
                   ELSE IF res.status # 0
                        THEN Respond([q EXCEPT !.fields = fields], res.status, res.detail)
                   ELSE _run_search([q EXCEPT !.fields = fields], request, res.cookies))
    /\ UNCHANGED <<env, phase, config>>

\* Line 129 completes: the constructor returns or raises; on return the
\* handler calls client.search (lines 132 and 150).
ClientReturns(r) ==
    /\ req[r].pc = "client"
    /\ \/ Set(r, [req[r] EXCEPT !.pc = "search",
                                !.calls = Append(@, SearchCall(req[r].request))])
       \/ \E exc \in ClientErrors :
            Set(r, Respond(Raised(req[r], "Client", exc), MapSearchFailure(exc).status,
                           MapSearchFailure(exc).detail))
    /\ UNCHANGED <<env, phase, config>>

\* client.search returns or raises.  A stream is handed to
\* StreamingResponse (line 148), which sends status 200 before iterating;
\* a complete result is wrapped as {"data": response} (lines 162, 193).
SearchReturns(r) ==
    /\ req[r].pc = "search"
    /\ \/ Set(r, IF req[r].request.stream
                 THEN [req[r] EXCEPT !.pc = "pull", !.status = 200, !.stream = "open"]
                 ELSE RespondJson(req[r], {<<"data", "response">>}))
       \/ \E exc \in ClientErrors :
            Set(r, Respond(Raised(req[r], "search", exc), MapSearchFailure(exc).status,
                           MapSearchFailure(exc).detail))
    /\ UNCHANGED <<env, phase, config>>

\* Line 145: the generator asks the client for the next chunk.  The client
\* yields one, ends the sequence, or raises; an exception escapes the
\* generator after the status line was sent, and the response is cut.
Pull(r, U) ==
    /\ req[r].pc = "pull"
    /\ \/ /\ Len(req[r].yielded) < MaxChunks
          /\ \E c \in U.chunks :
               Set(r, [req[r] EXCEPT !.pc = "emit", !.chunk = c,
                                     !.yielded = Append(@, c)])
       \/ Set(r, [req[r] EXCEPT !.pc = "done", !.stream = "complete"])
       \/ \E exc \in ClientErrors :
            Set(r, [Raised(req[r], "iterate", exc) EXCEPT !.pc = "done",
                                                          !.stream = "aborted"])
    /\ UNCHANGED <<env, phase, config>>

\* Line 146: the chunk is serialized and written.
Emit(r) ==
    /\ req[r].pc = "emit"
    /\ Set(r, [req[r] EXCEPT !.pc = "pull", !.chunk = <<>>,
                             !.out = stream_response(@, req[r].chunk)])
    /\ UNCHANGED <<env, phase, config>>

\* Lines 244-253, to the await of the constructor.
CreateAccount(r, U) ==
    /\ req[r].pc = "authed"
    /\ req[r].route = "/v1/account"
    /\ \E body \in U.accounts :
         LET own == IF IsStrDict(body) THEN SomeDict(StrItems(body.obj)) ELSE NoneDict
             cookies == AccountCookies(own, EMAILNATOR_COOKIES)
             q == [req[r] EXCEPT !.account = body]
         IN Set(r, IF cookies = {}
                   THEN Respond(q, 400, <<"Emailnator cookies are required (provide in body or EMAILNATOR_COOKIES env).">>)
                   ELSE [q EXCEPT !.pc = "acct_client", !.cookies = cookies,
                                  !.calls = Append(@, ClientCall({}))])
    /\ UNCHANGED <<env, phase, config>>

\* Line 253 completes; it stands outside the try of lines 254-261.
AccountClientReturns(r) ==
    /\ req[r].pc = "acct_client"
    /\ \/ Set(r, [req[r] EXCEPT !.pc = "acct_create",
                                !.calls = Append(@, CreateAccountCall(req[r].cookies))])
       \/ \E exc \in ClientErrors : Set(r, Unhandled(Raised(req[r], "Client", exc)))
    /\ UNCHANGED <<env, phase, config>>

\* Lines 255-263.
CreateAccountReturns(r) ==
    /\ req[r].pc = "acct_create"
    /\ \/ Set(r, RespondJson(req[r], {<<"cookies", "session">>, <<"copilot", "n">>,
                                      <<"file_upload", "n">>}))
       \/ \E exc \in ClientErrors :
            Set(r, Respond(Raised(req[r], "create_account", exc), 500,
                           <<"Account creation failed: ", exc.msg>>))
    /\ UNCHANGED <<env, phase, config>>

\* The response is complete; the slot serves the next request.
Recycle(r) ==
    /\ req[r].pc = "done"
    /\ Set(r, Idle)
    /\ UNCHANGED <<env, phase, config>>

(***************************************************************************)
(* Inputs and the two specifications.                                      *)
(***************************************************************************)
Key == SomeStr(<<"k1">>)
WrongKey == SomeStr(<<"k2">>)

EnvObject == JObj({<<"sid", JLex("str", "d")>>, <<"n", JLex("num", "1")>>})
OwnCookies1 == JObj({<<"sid", JLex("str", "c1")>>})
OwnCookies2 == JObj({<<"sid", JLex("str", "c2")>>})
EnvEmailnator == JObj({<<"em", JLex("str", "e")>>})
OwnEmailnator == JObj({<<"em", JLex("str", "own")>>})

Envs ==
    [PPLX_API_KEY : {NoneStr, SomeStr(<<>>), Key},
     PPLX_COOKIES : {RawNone, RawEmpty, RawBad, RawJson(JList(<<"x">>)), RawJson(EnvObject)},
     EMAILNATOR_COOKIES : {RawNone, RawBad, RawJson(EnvEmailnator)}]

Inputs ==
    [routes |-> Routes,
     x_api_key |-> {NoneStr, SomeStr(<<>>), Key, WrongKey},
     authorization |-> {NoneStr, SomeStr(<<"Bearer", " ", "k1">>),
                        SomeStr(<<"bearer", " ", "k1">>),
                        SomeStr(<<"Bearer", " ", "k2">>),
                        SomeStr(<<"Basic", " ", "k1">>)},
     bodies |-> [mode : {"auto", "bogus"},
                 sources : {JAbsent, JList(<<"web">>), JStr("web"), JList(<<"nosuch">>)},
                 stream : BOOLEAN,
                 cookies : {JAbsent, JObj({}), OwnCookies1},
                 follow_up : {JAbsent}],
     forms |-> [mode : {"auto", "bogus"},
                stream : BOOLEAN,
                sources : {RawNone, RawBad, RawJson(JList(<<"web">>)), RawJson(JStr("web"))},
                cookies : {RawNone, RawBad, RawJson(OwnCookies1), RawJson(JList(<<"x">>))},
                follow_up : {RawNone, RawBad}],
     accounts |-> {JAbsent, JObj({}), OwnEmailnator},
     chunks |-> Chunks]

\* Two requests in flight at once, each with its own cookie override.
ConcEnvs ==
    [PPLX_API_KEY : {Key},
     PPLX_COOKIES : {RawNone, RawBad, RawJson(EnvObject)},
     EMAILNATOR_COOKIES : {RawNone, RawJson(EnvEmailnator)}]

ConcInputs ==
    [routes |-> Routes,
     x_api_key |-> {Key, WrongKey},
     authorization |-> {NoneStr},
     bodies |-> [mode : {"auto", "bogus"},
                 sources : {JAbsent},
                 stream : BOOLEAN,
                 cookies : {JAbsent, OwnCookies1, OwnCookies2},
                 follow_up : {JAbsent}],
     forms |-> [mode : {"auto"},
                stream : {FALSE},
                sources : {RawNone},
                cookies : {RawNone, RawJson(OwnCookies2)},
                follow_up : {RawNone}],
     accounts |-> {JAbsent, OwnEmailnator},
     chunks |-> {<<"a">>}]

Slots == {1}
ConcSlots == {1, 2}

InitWith(E, S) ==
    /\ env \in E
    /\ phase = "start"
    /\ API_KEY = NoneStr
    /\ DEFAULT_COOKIES = {}
    /\ ENV_COOKIES_ERROR = <<>>
    /\ EMAILNATOR_COOKIES = {}
    /\ req = [r \in S |-> Idle]

Step(r, U) ==
    \/ Arrive(r, U)
    \/ Auth(r)
    \/ Health(r)
    \/ ListModels(r)
    \/ Usage(r)
    \/ Search(r, U)
    \/ SearchWithUpload(r, U)
    \/ ClientReturns(r)
    \/ SearchReturns(r)
    \/ Pull(r, U)
    \/ Emit(r)
    \/ CreateAccount(r, U)
    \/ AccountClientReturns(r)
    \/ CreateAccountReturns(r)
    \/ Recycle(r)

Init == InitWith(Envs, Slots)
Next == LoadModule \/ \E r \in Slots : Step(r, Inputs)
Spec == Init /\ [][Next]_vars

InitConc == InitWith(ConcEnvs, ConcSlots)
NextConc == LoadModule \/ \E r \in ConcSlots : Step(r, ConcInputs)
SpecConc == InitConc /\ [][NextConc]_vars

(***************************************************************************)
(* Properties.                                                             *)
(***************************************************************************)
R == DOMAIN req
SearchRoutes == {"/v1/search", "/v1/search/upload"}

\* The handler of an authenticated route has started for this request.
HandlerRan(q) == q.authed /\ q.pc # "authed"

\* The dependency has decided this request.
AuthDecided(q) == q.route \in AuthRoutes /\ q.pc \notin {"idle", "arrived"}

Rejected401(q) == q.pc = "done" /\ q.status = 401 /\ q.calls = <<>>

\* The Authorization headers that carry key as a bearer token.
BearerFor(key) == {SomeStr(<<b, " ">> \o key.v) : b \in {"Bearer", "bearer", "BEARER"}}

C2_StreamInOrder ==
    \A r \in R :
        req[r].stream # "none"
        => LET q == req[r]
               written == IF q.pc = "emit" THEN Len(q.yielded) - 1 ELSE Len(q.yielded)
           IN /\ Len(q.yielded) >= 1 \/ q.pc # "emit"
              /\ Lines(q.out) = [i \in 1..written |-> json_dumps(q.yielded[i])]
              /\ q.out = <<>> \/ q.out[Len(q.out)] = "\n"
              /\ q.pc = "emit" => q.chunk = q.yielded[Len(q.yielded)]

\* A stream of two different chunks has completed with two records.
C2_Witness ==
    \E r \in R :
        /\ req[r].stream = "complete"
        /\ Len(req[r].yielded) = 2
        /\ req[r].yielded[1] # req[r].yielded[2]
        /\ Len(Lines(req[r].out)) = 2

\* C3: a stream whose chunk sequence completed carries, after the records
\* of its chunks, one more record that is no chunk's serialization: the
\* end-of-stream marker.
C3_EndMarkerWritten ==
    \A r \in R :
        (req[r].stream = "complete" /\ Len(req[r].yielded) >= 1)
        => LET recs == Lines(req[r].out)
           IN /\ Len(recs) = Len(req[r].yielded) + 1
              /\ recs[Len(recs)] \notin {json_dumps(c) : c \in Chunks}

\* The request as sent: its mode, whether its body passes parsing and the
\* SearchRequest model, and its non-empty cookie override ({} without one).
ReqMode(q) == IF q.route = "/v1/search" THEN q.fields.mode ELSE q.form.mode

FormFieldOk(raw, shapes) == raw.k = "none" \/ (raw.k = "json" /\ raw.val.t \in shapes)

WellFormed(q) ==
    IF q.route = "/v1/search"
    THEN /\ q.fields.sources.t \in {"absent", "list"}
         /\ q.fields.cookies.t \in {"absent", "null", "obj"}
    ELSE /\ FormFieldOk(q.form.sources, {"null", "list"})
         /\ FormFieldOk(q.form.cookies, {"null", "obj"})
         /\ FormFieldOk(q.form.follow_up, {"null", "obj"})

Override(q) ==
    LET j == IF q.route = "/v1/search" THEN q.fields.cookies ELSE q.form.cookies.val
    IN IF j.t = "obj" THEN {<<p[1], p[2].lex>> : p \in j.obj} ELSE {}

ReqSources(q) ==
    LET j == IF q.route = "/v1/search" THEN q.fields.sources ELSE q.form.sources.val
    IN IF j.t = "list" /\ j.list # <<>> THEN j.list ELSE <<"web">>

ValidParams(q) ==
    /\ ReqMode(q) \in SEARCH_MODES
    /\ \A i \in 1..Len(ReqSources(q)) : ReqSources(q)[i] \in SEARCH_SOURCES

SearchHandled(q) == q.route \in SearchRoutes /\ HandlerRan(q)

InvalidModeDetail(q) == <<"Invalid mode '", ReqMode(q), "'">>

\* C4 as stated: an authenticated, well-formed search request whose mode is
\* outside the mode table is answered 422 with the validator's message and
\* makes no client call, whatever the cookie configuration.
C4_InvalidModeAlways422 ==
    \A r \in R :
        (SearchHandled(req[r]) /\ WellFormed(req[r]) /\ ReqMode(req[r]) \notin SEARCH_MODES)
        => /\ req[r].pc = "done"
           /\ req[r].status = 422
           /\ req[r].detail = InvalidModeDetail(req[r])
           /\ req[r].calls = <<>>

\* C4 amended: a search request whose mode is outside the table never
\* reaches the client and ends with an error.  It is the validator's 422
\* when the body is well-formed and the cookies resolve (a non-empty
\* override, or no deferred cookie error); with a deferred cookie error and
\* no override it is the 500 of the cookie error, raised before validation;
\* a body that fails parsing or the request model gets that step's 422 or
\* 500.
C4_InvalidModeRejected ==
    \A r \in R :
        (SearchHandled(req[r]) /\ ReqMode(req[r]) \notin SEARCH_MODES)
        => LET q == req[r]
               resolves == Override(q) # {} \/ ENV_COOKIES_ERROR = <<>>
           IN /\ q.pc = "done"
              /\ q.calls = <<>>
              /\ q.status \in {422, 500}
              /\ (WellFormed(q) /\ resolves)
                   => q.status = 422 /\ q.detail = InvalidModeDetail(q)
              /\ (WellFormed(q) /\ ~resolves)
                   => q.status = 500 /\ q.detail = ENV_COOKIES_ERROR
              /\ ~WellFormed(q) => q.detail # InvalidModeDetail(q)

\* An invalid mode was answered 422 by the validator although the default
\* cookies are malformed, the request carrying its own cookies.
C4_Witness ==
    \E r \in R :
        /\ SearchHandled(req[r])
        /\ ENV_COOKIES_ERROR # <<>>
        /\ Override(req[r]) # {}
        /\ req[r].status = 422
        /\ req[r].detail = InvalidModeDetail(req[r])

MappedByKind(q) ==
    /\ q.pc = "done"
    /\ q.exc.kind = "AssertionError" => q.status = 400 /\ q.detail = <<q.exc.msg>>
    /\ q.exc.kind # "AssertionError"
         => q.status = 500 /\ q.detail = <<"Search failed: ", q.exc.msg>>

\* C5 as stated: every failure of the external client during a search
\* request, the iteration of a stream included, is answered 400 for an
\* AssertionError and 500 "Search failed: <text>" otherwise.
C5_EveryFailureMapped ==
    \A r \in R :
        (req[r].route \in SearchRoutes /\ req[r].failedAt # "") => MappedByKind(req[r])

\* C5 amended: a failure of the constructor or of the search call is
\* mapped by kind, on both routes.  A failure raised while the chunks of a
\* stream are iterated is not mapped: the status 200 was sent before, and
\* the body ends after the records written so far.
C5_CallFailureMapped ==
    \A r \in R :
        (req[r].route \in SearchRoutes /\ req[r].failedAt # "")
        => IF req[r].failedAt \in {"Client", "search"} THEN MappedByKind(req[r])
           ELSE /\ req[r].failedAt = "iterate"
                /\ req[r].pc = "done"
                /\ req[r].status = 200
                /\ req[r].detail = <<>>
                /\ req[r].stream = "aborted"
                /\ Len(Lines(req[r].out)) = Len(req[r].yielded)

\* An upload search whose search call raised an AssertionError got 400.
C5_Witness ==
    \E r \in R :
        /\ req[r].route = "/v1/search/upload"
        /\ req[r].failedAt = "search"
        /\ req[r].exc.kind = "AssertionError"
        /\ req[r].status = 400

\* The bare string given as sources, "" when sources is no bare string.
BareSource(q) ==
    LET j == IF q.route = "/v1/search" THEN q.fields.sources ELSE q.form.sources.val
    IN IF j.t = "str" THEN j.str ELSE ""

\* C6: a search request whose sources is a bare string s of the source
\* table, and which is otherwise valid with cookies that resolve, is not
\* rejected: the client is constructed and searched with sources = <<s>>.
C6_BareStringNormalized ==
    \A r \in R :
        LET q == req[r]
        IN (/\ SearchHandled(q)
            /\ BareSource(q) \in SEARCH_SOURCES
            /\ ReqMode(q) \in SEARCH_MODES
            /\ IF q.route = "/v1/search" THEN q.fields.cookies.t \in {"absent", "obj"}
               ELSE FormFieldOk(q.form.cookies, {"obj"}) /\ q.form.follow_up.k = "none"
            /\ Override(q) # {} \/ ENV_COOKIES_ERROR = <<>>)
           => /\ q.calls # <<>>
              /\ q.request.sources = <<BareSource(q)>>
              /\ \A i \in 1..Len(q.calls) :
                   q.calls[i].op = "search" => q.calls[i].sources = <<BareSource(q)>>

\* The environment value of the default search cookies.
CookiesMissing == env.PPLX_COOKIES.k \in {"none", "empty"}
CookiesMalformed ==
    \/ env.PPLX_COOKIES.k = "bad"
    \/ env.PPLX_COOKIES.k = "json" /\ env.PPLX_COOKIES.val.t # "obj"

\* The request's first client call is the constructor with these cookies.
ConstructedWith(q, cookies) == q.calls # <<>> /\ q.calls[1] = ClientCall(cookies)

C8_NoSecretIs500 ==
    \A r \in R :
        /\ (~(env.PPLX_API_KEY.some /\ env.PPLX_API_KEY.v # <<>>) /\ AuthDecided(req[r]))
             => req[r].pc = "done" /\ req[r].status = 500 /\ req[r].calls = <<>>
        /\ (req[r].route = "/health" /\ req[r].pc # "arrived")
             => /\ req[r].pc = "done"
                /\ req[r].status = 200
                /\ req[r].payload = {<<"status", "ok">>}

\* Without a secret, a request carrying a credential got 500.
C8_Witness ==
    \E r \in R :
        /\ ~env.PPLX_API_KEY.some
        /\ req[r].route = "/v1/search"
        /\ req[r].x_api_key = Key
        /\ req[r].status = 500
        /\ req[r].calls = <<>>

\* The emailnator cookies of the request body, {} when it gives none.
OwnAccountCookies(q) ==
    IF q.account.t = "obj" THEN {<<p[1], p[2].lex>> : p \in q.account.obj} ELSE {}

\* C9: an authenticated POST /v1/account with no non-empty emailnator
\* cookies in body or environment is answered 400 without any client call;
\* otherwise it is not answered 400, the constructor is called, and
\* create_account, once the constructor has returned, is called with the
\* body's set when that is not empty and with the environment's otherwise.
C9_AccountCookies ==
    \A r \in R :
        (req[r].route = "/v1/account" /\ HandlerRan(req[r]))
        => LET q == req[r]
               own == OwnAccountCookies(q)
               used == IF own # {} THEN own ELSE EMAILNATOR_COOKIES
           IN IF used = {}
              THEN q.pc = "done" /\ q.status = 400 /\ q.calls = <<>>
              ELSE /\ q.status # 400
                   /\ ConstructedWith(q, {})
                   /\ (q.pc = "acct_create" \/ q.failedAt = "create_account"
                         \/ q.status = 200)
                        => Len(q.calls) = 2 /\ q.calls[2] = CreateAccountCall(used)
                   /\ \A i \in 1..Len(q.calls) :
                        q.calls[i].op = "create_account" => q.calls[i].cookies = used

\* create_account was called with the body's cookies although the
\* environment supplies a default.
C9_Witness ==
    \E r \in R :
        /\ EMAILNATOR_COOKIES # {}
        /\ OwnAccountCookies(req[r]) # {}
        /\ OwnAccountCookies(req[r]) # EMAILNATOR_COOKIES
        /\ Len(req[r].calls) = 2
        /\ req[r].calls[2] = CreateAccountCall(OwnAccountCookies(req[r]))

\* C10: once loaded, the configuration is what the import computed from
\* the environment, whatever requests have run or are in flight; and the
\* cookies a search request hands to the client's constructor are its own
\* non-empty override or else the process default.
C10_ConfigReadOnly ==
    /\ phase = "serving"
         => /\ API_KEY = env.PPLX_API_KEY
            /\ DEFAULT_COOKIES = _load_json_env("PPLX_COOKIES", env.PPLX_COOKIES).d
            /\ ENV_COOKIES_ERROR = _load_json_env("PPLX_COOKIES", env.PPLX_COOKIES).err
            /\ EMAILNATOR_COOKIES
                 = _load_json_env("EMAILNATOR_COOKIES", env.EMAILNATOR_COOKIES).d
    /\ \A r \in R :
         (req[r].route \in SearchRoutes /\ req[r].calls # <<>>)
         => req[r].calls[1] = ClientCall(IF Override(req[r]) # {} THEN Override(req[r])
                                         ELSE DEFAULT_COOKIES)

\* Two searches are in flight at once, one constructed with its own
\* cookies and the other with the non-empty process default.
C10_Witness ==
    \E r1, r2 \in R :
        /\ r1 # r2
        /\ DEFAULT_COOKIES # {}
        /\ req[r1].pc \in {"client", "search", "pull", "emit"}
        /\ req[r2].pc \in {"client", "search", "pull", "emit"}
        /\ Override(req[r1]) # {}
        /\ ConstructedWith(req[r1], Override(req[r1]))
        /\ Override(req[r2]) = {}
        /\ ConstructedWith(req[r2], DEFAULT_COOKIES)
====
